---- MODULE Spec2Model ----
(***************************************************************************)
(* solar-battery-sim: SolarBatterySim.simple_sim and multi_year_sim.       *)
(*                                                                         *)
(* The repository's solar_sim module is documented by docs/demo_sim.ipynb  *)
(* (two executed cells with their recorded outputs) and by the README.     *)
(* The model follows the recorded outputs and the README formulas; where   *)
(* neither decides a behaviour (validation, the success boundary at 0, the *)
(* originals after a derivation), the design document is followed.         *)
(*                                                                         *)
(* Numbers.  Python floats are modelled as exact decimals.  Fractions      *)
(* (reserve_pct, degredation_profile entries) are counted in tenths:       *)
(* 1 is 0.1, 5 is 0.5, 10 is 1.0.  Energies (KWh) are counted in units of  *)
(* 1/Scale KWh, where Scale has one factor 10 per degradation step and one *)
(* for the reserve, so that every product below is exact.                  *)
(***************************************************************************)
EXTENDS Integers, Sequences, FiniteSets

\* ------------------------------------------------------------- bounds
MaxBatteries == 2
MaxProfLen == 2
MaxSims == 2
MaxDays == 2
MaxYears == 4

Scale == 10 ^ (MaxProfLen + 1)

\* ------------------------------------------------------------ helpers
Abs(x) == IF x < 0 THEN -x ELSE x

RECURSIVE SeqSum(_)
SeqSum(s) == IF s = <<>> THEN 0 ELSE Head(s) + SeqSum(Tail(s))

\* A degradation curve of n yearly fractions alternating a, b, a, b, ...
Curve(a, b, n) == [i \in 1..n |-> IF i % 2 = 1 THEN a ELSE b]

\* --------------------------------------------------------- the inputs
Battery(c, r, p) ==
    [capacity_KWh |-> c * Scale, reserve_pct |-> r, degredation_profile |-> p]

NetConsumptionProfile(m, s, p) ==
    [avg_net_consumption_KWh |-> m * Scale,
     stdv_net_consumption_KWh |-> s * Scale,
     degredation_profile |-> p]

BatteryList ==
    << Battery(2, 0, <<>>),
       Battery(2, 5, Curve(1, 5, MaxProfLen)),
       Battery(1, 5, Curve(5, 1, 1)) >>

\* The fleets of 1..MaxBatteries batteries, each listed in one order.
Fleets ==
    UNION { { [i \in 1..n |-> BatteryList[f[i]]] :
                f \in { g \in [1..n -> 1..Len(BatteryList)] :
                          \A i \in 1..(n - 1) : g[i] <= g[i + 1] } } :
            n \in 1..MaxBatteries }

\* Net draws (negative mean) with and without spread and degradation, and
\* one net producer (positive mean).
ProfileSet ==
    { NetConsumptionProfile(-2, s, p) :
        s \in {0, 1}, p \in { <<>>, Curve(5, 1, MaxProfLen) } }
    \cup { NetConsumptionProfile(1, 1, Curve(5, 1, MaxProfLen)) }

ValidArgs ==
    [label : {"Test_sim"},
     n_simulations : 1..MaxSims,
     n_consecutive_days : 1..MaxDays,
     batteries : Fleets,
     profile : ProfileSet]

\* Arguments with one invalid field each.
BaseArgs == { a \in ValidArgs : a.n_simulations = 1 /\ a.n_consecutive_days = 1 }

InvalidArgs ==
    { [a EXCEPT !.n_simulations = 0] : a \in BaseArgs }
    \cup { [a EXCEPT !.n_consecutive_days = 0] : a \in BaseArgs }
    \cup { [a EXCEPT !.profile.stdv_net_consumption_KWh = -Scale] : a \in BaseArgs }
    \cup { [a EXCEPT !.batteries[Len(a.batteries)].reserve_pct = r] :
              a \in BaseArgs, r \in {10, 11} }

\* ------------------------------------------------------ random source
\* The process-wide generator: a fixed stream of standard draws, read from
\* the generator's current position.  The stream holds every pair of
\* consecutive draws over {-1, 1}.
Stream == <<-1, -1, 1, 1>>
Period == Len(Stream)
DrawAt(g) == Stream[(g % Period) + 1]

\* ScenarioSampler: n_consecutive_days draws from normal(mean, stdv).
Sample(g, profile, days) ==
    [d \in 1..days |->
        profile.avg_net_consumption_KWh
        + profile.stdv_net_consumption_KWh * DrawAt(g + d - 1)]

\* ---------------------------------------------------------- Battery
\* Accessible Capacity = Total Capacity - Reserve.
\* (slip: the reserve itself, as in the README's "30 - 30 * 0.95")
accessible_capacity_reserve(b) ==
    b.capacity_KWh - (b.capacity_KWh * (10 - b.reserve_pct)) \div 10

accessible_capacity(b) == (b.capacity_KWh * (10 - b.reserve_pct)) \div 10

total_battery_capacity(bs) ==
    SeqSum([i \in 1..Len(bs) |-> bs[i].capacity_KWh])

total_accessible_capacity(bs) ==
    SeqSum([i \in 1..Len(bs) |-> accessible_capacity(bs[i])])

\* ------------------------------------------------------- degradation
\* The fraction a profile applies in simulated year k (k = 0: none; past
\* the end of the profile: none, the value is held).
\* (slip: the year used as a 0-based list index, so year 0 degrades)
DegradationFraction_zero_based(prof, k) ==
    IF k + 1 \in 1..Len(prof) THEN prof[k + 1] ELSE 0

\* (slip: past its end the profile's last fraction is applied again)
DegradationFraction_repeat_last(prof, k) ==
    IF k \in 1..Len(prof) THEN prof[k]
    ELSE IF k > Len(prof) /\ Len(prof) > 0 THEN prof[Len(prof)] ELSE 0

DegradationFraction(prof, k) ==
    IF k \in 1..Len(prof) THEN prof[k] ELSE 0

\* A capacity shrinks by the fraction of its current value.
\* (slip: the lost part is kept, "value * pct" for "value * (1 - pct)")
DegradedCapacity_lost_part(value, frac) == (value * frac) \div 10

\* (slip: the sign, the capacity grows)
DegradedCapacity_grows(value, frac) == value + (value * frac) \div 10

DegradedCapacity(value, frac) == value - (value * frac) \div 10

\* A mean net consumption is reduced by the fraction of its magnitude.
\* (slip: the README's formula, which raises a negative mean)
DegradedMean_signed(value, frac) == value - (value * frac) \div 10

DegradedMean(value, frac) == value - (Abs(value) * frac) \div 10

DegradeBattery(b, k) ==
    [b EXCEPT !.capacity_KWh =
        DegradedCapacity(b.capacity_KWh,
                         DegradationFraction(b.degredation_profile, k))]

DegradeProfile(p, k) ==
    [p EXCEPT !.avg_net_consumption_KWh =
        DegradedMean(p.avg_net_consumption_KWh,
                     DegradationFraction(p.degredation_profile, k))]

DegradeFleet(bs, k) == [i \in 1..Len(bs) |-> DegradeBattery(bs[i], k)]

\* What a derivation of year k's values leaves in the original objects.
\* (slip: the derivation writes into the original object)
OriginalAfterDerive_in_place(original, derived) == derived

OriginalAfterDerive(original, derived) == original

\* -------------------------------------------------- OutcomeEvaluator
\* (slip: the whole capacity, reserve included)
TotalNet_total_capacity(scenario, bs) ==
    SeqSum(scenario) + total_battery_capacity(bs)

TotalNet(scenario, bs) == SeqSum(scenario) + total_accessible_capacity(bs)

IsSuccess(total_net) == total_net >= 0

\* -------------------------------------------------------- validation
ValidBattery(b) == b.reserve_pct >= 0 /\ b.reserve_pct < 10

ValidProfile(p) == p.stdv_net_consumption_KWh >= 0

ValidSim(a) ==
    /\ a.n_simulations > 0
    /\ a.n_consecutive_days >= 1
    /\ Len(a.batteries) >= 1

ValidConstruction(a) ==
    /\ \A i \in 1..Len(a.batteries) : ValidBattery(a.batteries[i])
    /\ ValidProfile(a.profile)
    /\ ValidSim(a)

\* (slip: n_years = 0 accepted)
ValidYears_zero(n) == n >= 0

ValidYears(n) == n >= 1

\* ------------------------------------------------------------- state
VARIABLES
    args,          \* the constructor arguments as the caller wrote them
    pc,            \* "args" | "raised" | "idle" | "running"
    error,         \* "none" | "ConfigurationError": the last call's outcome
    sim,           \* the SolarBatterySim object
    rng,           \* the process-wide generator's position
    call,          \* the last call: "none" | "simple_sim" | "multi_year_sim"
    n_years,       \* the last multi_year_sim call's argument
    year,          \* the year being simulated
    cur,           \* the batteries and profile the engine runs on
    yearly,        \* the values derived for each year of the call so far
    drawn,         \* draws taken from the generator since the last call began
    trial,         \* trials sampled in the current run of the engine
    successes,     \* successes among them
    last_trial,    \* the last trial: scenario, total_net, success
    seed,          \* generator position at the current run's first draw
    simple_ret,    \* what the last simple_sim returned
    multi_ret      \* what the last multi_year_sim returned (so far)

vars == <<args, pc, error, sim, rng, call, n_years, year, cur, yearly,
          drawn, trial, successes, last_trial, seed, simple_ret, multi_ret>>

NoProfile == NetConsumptionProfile(0, 0, <<>>)
NoSim == [label |-> "", n_simulations |-> 0, n_consecutive_days |-> 0,
          batteries |-> <<>>, profile |-> NoProfile]
NoCur == [batteries |-> <<>>, profile |-> NoProfile]
NoTrial == [scenario |-> <<>>, total_net |-> 0, success |-> FALSE]

\* SolarSimResult; p_success is the pair <<successes, n_simulations>>.
SolarSimResult(succ, n, c) ==
    [p_success |-> <<succ, n>>,
     total_battery_capacity |-> total_battery_capacity(c.batteries),
     total_accessible_capacity |-> total_accessible_capacity(c.batteries),
     avg_net_consumption |-> c.profile.avg_net_consumption_KWh,
     raw_outcomes |-> "None"]

YearKey(label, k) == <<label, "y", k>>

\* Whether the year loop goes on after year k's result p.
\* (slip: the loop stops once no trial succeeds)
LoopContinues_until_zero(k, n, p) == k + 1 < n /\ p[1] > 0

LoopContinues(k, n, p) == k + 1 < n

Init ==
    /\ args \in ValidArgs \cup InvalidArgs
    /\ rng \in 0..(Period - 1)
    /\ pc = "args"
    /\ error = "none"
    /\ sim = NoSim
    /\ call = "none"
    /\ n_years = 0
    /\ year = 0
    /\ cur = NoCur
    /\ yearly = <<>>
    /\ drawn = 0
    /\ trial = 0
    /\ successes = 0
    /\ last_trial = NoTrial
    /\ seed = 0
    /\ simple_ret = <<>>
    /\ multi_ret = <<>>

\* Battery(...), NetConsumptionProfile(...), SolarBatterySim(...).
Construct ==
    /\ pc = "args"
    /\ IF ValidConstruction(args)
       THEN /\ pc' = "idle"
            /\ sim' = args
            /\ error' = "none"
       ELSE /\ pc' = "raised"
            /\ sim' = sim
            /\ error' = "ConfigurationError"
    /\ UNCHANGED <<args, rng, call, n_years, year, cur, yearly, drawn, trial,
                   successes, last_trial, seed, simple_ret, multi_ret>>

\* sim.simple_sim(): the engine runs on the configured values.
SimpleSimCall ==
    /\ pc = "idle"
    /\ pc' = "running"
    /\ call' = "simple_sim"
    /\ error' = "none"
    /\ cur' = [batteries |-> sim.batteries, profile |-> sim.profile]
    /\ drawn' = 0
    /\ trial' = 0
    /\ successes' = 0
    /\ last_trial' = NoTrial
    /\ seed' = rng
    /\ simple_ret' = <<>>
    /\ UNCHANGED <<args, sim, rng, n_years, year, yearly, multi_ret>>

\* sim.multi_year_sim(n): year 0 runs on the values derived for year 0.
MultiYearCall(n) ==
    /\ pc = "idle"
    /\ multi_ret' = <<>>
    /\ call' = "multi_year_sim"
    /\ n_years' = n
    /\ drawn' = 0
    /\ trial' = 0
    /\ successes' = 0
    /\ last_trial' = NoTrial
    /\ IF ValidYears(n)
       THEN LET c == [batteries |-> DegradeFleet(sim.batteries, 0),
                      profile |-> DegradeProfile(sim.profile, 0)]
            IN /\ pc' = "running"
               /\ error' = "none"
               /\ year' = 0
               /\ cur' = c
               /\ yearly' = <<c>>
               /\ seed' = rng
               /\ sim' = [sim EXCEPT
                     !.batteries = OriginalAfterDerive(sim.batteries, c.batteries),
                     !.profile = OriginalAfterDerive(sim.profile, c.profile)]
       ELSE /\ pc' = "idle"
            /\ error' = "ConfigurationError"
            /\ year' = 0
            /\ yearly' = <<>>
            /\ UNCHANGED <<cur, seed, sim>>
    /\ UNCHANGED <<args, rng, simple_ret>>

\* One trial of the engine: sample a scenario, evaluate it, count it.
Trial ==
    /\ pc = "running"
    /\ trial < sim.n_simulations
    /\ LET scenario == Sample(rng, cur.profile, sim.n_consecutive_days)
           total_net == TotalNet(scenario, cur.batteries)
       IN /\ last_trial' = [scenario |-> scenario, total_net |-> total_net,
                            success |-> IsSuccess(total_net)]
          /\ successes' = successes + (IF IsSuccess(total_net) THEN 1 ELSE 0)
    /\ trial' = trial + 1
    /\ drawn' = drawn + sim.n_consecutive_days
    /\ rng' = (rng + sim.n_consecutive_days) % Period
    /\ UNCHANGED <<args, pc, error, sim, call, n_years, year, cur, yearly,
                   seed, simple_ret, multi_ret>>

\* simple_sim returns its result.
SimpleSimReturn ==
    /\ pc = "running"
    /\ call = "simple_sim"
    /\ trial = sim.n_simulations
    /\ simple_ret' = <<[result |-> SolarSimResult(successes, sim.n_simulations, cur),
                        seed |-> seed]>>
    /\ pc' = "idle"
    /\ cur' = NoCur
    /\ trial' = 0
    /\ successes' = 0
    /\ last_trial' = NoTrial
    /\ seed' = 0
    /\ UNCHANGED <<args, error, sim, rng, call, n_years, year, yearly, drawn,
                   multi_ret>>

\* multi_year_sim stores year k's result, then derives year k + 1's values
\* and runs the engine again, or returns the mapping.
EndOfYear ==
    /\ pc = "running"
    /\ call = "multi_year_sim"
    /\ trial = sim.n_simulations
    /\ LET r == SolarSimResult(successes, sim.n_simulations, cur)
       IN /\ multi_ret' = Append(multi_ret,
                [key |-> YearKey(sim.label, year), result |-> r, seed |-> seed])
          /\ IF LoopContinues(year, n_years, r.p_success)
             THEN LET c == [batteries |-> DegradeFleet(cur.batteries, year + 1),
                            profile |-> DegradeProfile(cur.profile, year + 1)]
                  IN /\ year' = year + 1
                     /\ cur' = c
                     /\ yearly' = Append(yearly, c)
                     /\ trial' = 0
                     /\ successes' = 0
                     /\ seed' = rng
                     /\ sim' = [sim EXCEPT
                           !.batteries = OriginalAfterDerive(sim.batteries, c.batteries),
                           !.profile = OriginalAfterDerive(sim.profile, c.profile)]
                     /\ last_trial' = last_trial
                     /\ pc' = pc
             ELSE /\ pc' = "idle"
                  /\ cur' = NoCur
                  /\ trial' = 0
                  /\ successes' = 0
                  /\ last_trial' = NoTrial
                  /\ seed' = 0
                  /\ UNCHANGED <<year, yearly, sim>>
    /\ UNCHANGED <<args, error, rng, call, n_years, drawn, simple_ret>>

Next ==
    \/ Construct
    \/ SimpleSimCall
    \/ \E n \in 0..MaxYears : MultiYearCall(n)
    \/ Trial
    \/ SimpleSimReturn
    \/ EndOfYear

Spec == Init /\ [][Next]_vars

\* ------------------------------------------------------------ claims
\* p <= q for two p_success values <<successes, n_simulations>>.
LeqP(p, q) == p[1] * q[2] <= q[1] * p[2]

Constructed == pc \in {"idle", "running"}

\* The result multi_ret holds for year k, and the values derived for it.
YearResult(k) == multi_ret[k + 1].result
YearValues(k) == yearly[k + 1]
YearsStored == 0..(Len(multi_ret) - 1)
YearsDerived == 0..(Len(yearly) - 1)

\* Sum over the fleet of capacity x (1 - reserve_pct).
AccessibleSum(bs) ==
    SeqSum([i \in 1..Len(bs) |->
              (bs[i].capacity_KWh * (10 - bs[i].reserve_pct)) \div 10])

CapacitySum(bs) == SeqSum([i \in 1..Len(bs) |-> bs[i].capacity_KWh])

\* C1: every evaluated trial's total_net is the sum of its sampled days
\* plus the fleet's total accessible capacity, over n_consecutive_days
\* days, and the trial is a success exactly when total_net >= 0.
C1_TrialOutcome ==
    (pc = "running" /\ trial > 0) =>
        /\ Len(last_trial.scenario) = sim.n_consecutive_days
        /\ last_trial.total_net =
              SeqSum(last_trial.scenario) + AccessibleSum(cur.batteries)
        /\ last_trial.success = (last_trial.total_net >= 0)

\* A trial that ends exactly at 0, a success, with a fleet whose reserve
\* makes the accessible capacity smaller than the capacity.
C1_Witness ==
    /\ pc = "running"
    /\ trial > 0
    /\ last_trial.total_net = 0
    /\ last_trial.success
    /\ AccessibleSum(cur.batteries) < CapacitySum(cur.batteries)

\* C2: a battery's capacity in year 0 is the original capacity, and in
\* year k, 1 <= k <= length of its profile, the capacity of year k - 1
\* times (1 - frac_k).
C2_CapacityCompounds ==
    \A k \in YearsDerived : \A i \in 1..Len(YearValues(k).batteries) :
        LET prof == args.batteries[i].degredation_profile
        IN /\ k = 0 =>
                YearValues(k).batteries[i].capacity_KWh
                    = args.batteries[i].capacity_KWh
           /\ k \in 1..Len(prof) =>
                YearValues(k).batteries[i].capacity_KWh * 10
                    = YearValues(k - 1).batteries[i].capacity_KWh * (10 - prof[k])

\* Two years of degradation of one battery, where shrinking the degraded
\* value differs from shrinking the original twice.
C2_Witness ==
    \E i \in 1..Len(args.batteries) :
        LET prof == args.batteries[i].degredation_profile
            c0 == args.batteries[i].capacity_KWh
        IN /\ Len(yearly) >= 3
           /\ Len(prof) >= 2
           /\ YearValues(2).batteries[i].capacity_KWh
                 < YearValues(1).batteries[i].capacity_KWh
           /\ YearValues(2).batteries[i].capacity_KWh * 10
                 # c0 * (10 - prof[1] - prof[2])

C4_YearZeroIsSimpleSim ==
    (simple_ret # <<>> /\ multi_ret # <<>>) =>
        LET s == simple_ret[1].result
            y == YearResult(0)
        IN /\ y.total_battery_capacity = s.total_battery_capacity
           /\ y.total_accessible_capacity = s.total_accessible_capacity
           /\ y.avg_net_consumption = s.avg_net_consumption
           /\ (simple_ret[1].seed = multi_ret[1].seed
               \/ args.profile.stdv_net_consumption_KWh = 0)
                 => y.p_success = s.p_success

\* Both calls made on a configuration that degrades and spreads, reading
\* the same draws, some trials succeeding and some failing.
C4_Witness ==
    /\ simple_ret # <<>>
    /\ Len(multi_ret) >= 2
    /\ simple_ret[1].seed = multi_ret[1].seed
    /\ args.profile.stdv_net_consumption_KWh > 0
    /\ YearResult(0).p_success[1] \in 1..(sim.n_simulations - 1)
    /\ YearResult(1).total_battery_capacity < YearResult(0).total_battery_capacity
    /\ YearResult(1).avg_net_consumption < YearResult(0).avg_net_consumption

\* C5: once constructed, the object's batteries and profile are those it
\* was constructed with, whatever calls were made; a call's first run of
\* the engine starts from them.
C5_OriginalUnchanged ==
    Constructed =>
        /\ sim.batteries = args.batteries
        /\ sim.profile = args.profile
        /\ (pc = "running" /\ call = "simple_sim") =>
              (cur.batteries = args.batteries /\ cur.profile = args.profile)
        /\ yearly # <<>> =>
              /\ CapacitySum(YearValues(0).batteries) = CapacitySum(args.batteries)
              /\ YearValues(0).profile.avg_net_consumption_KWh
                    = args.profile.avg_net_consumption_KWh

\* simple_sim running after a multi_year_sim that returned degraded years.
C5_Witness ==
    /\ pc = "running"
    /\ call = "simple_sim"
    /\ Len(multi_ret) >= 2
    /\ Len(multi_ret) = n_years
    /\ YearResult(n_years - 1).total_battery_capacity < CapacitySum(args.batteries)
    /\ YearResult(n_years - 1).avg_net_consumption
          < args.profile.avg_net_consumption_KWh

\* C6: the results are stored under '{label}_y{k}' for k = 0, 1, ... in
\* this order, one per year; while the call runs year k, the years before
\* k are stored; when it has returned, all n_years are.
C6_AllYearsInOrder ==
    /\ \A i \in 1..Len(multi_ret) :
          multi_ret[i].key = <<args.label, "y", i - 1>>
    /\ (pc = "running" /\ call = "multi_year_sim") =>
          (Len(multi_ret) = year /\ year < n_years)
    /\ (~(pc = "running" /\ call = "multi_year_sim") /\ multi_ret # <<>>) =>
          Len(multi_ret) = n_years

\* A returned mapping of at least three years in which no trial of the
\* first year succeeded and two following years report the same p_success.
C6_Witness ==
    /\ pc = "idle"
    /\ n_years >= 3
    /\ Len(multi_ret) = n_years
    /\ YearResult(0).p_success[1] = 0
    /\ YearResult(1).p_success = YearResult(2).p_success

\* C7: arguments with n_simulations = 0, n_consecutive_days = 0, a
\* negative stdv or a reserve_pct of 1.0 or more end construction in a
\* ConfigurationError, and so does multi_year_sim(0); no draw was taken and
\* nothing was returned.
C7_InvalidRaises ==
    /\ ( /\ pc # "args"
         /\ \/ args.n_simulations = 0
            \/ args.n_consecutive_days = 0
            \/ args.profile.stdv_net_consumption_KWh < 0
            \/ \E i \in 1..Len(args.batteries) : args.batteries[i].reserve_pct >= 10 )
       => ( /\ pc = "raised"
            /\ error = "ConfigurationError"
            /\ drawn = 0
            /\ simple_ret = <<>>
            /\ multi_ret = <<>> )
    /\ (call = "multi_year_sim" /\ n_years = 0)
       => ( /\ pc = "idle"
            /\ error = "ConfigurationError"
            /\ drawn = 0
            /\ multi_ret = <<>> )

\* multi_year_sim(0) called on an object that had already run simple_sim.
C7_Witness ==
    /\ call = "multi_year_sim"
    /\ n_years = 0
    /\ error = "ConfigurationError"
    /\ simple_ret # <<>>

\* C8: every result reports the sum of the capacities and the sum of
\* capacity x (1 - reserve_pct) of the batteries it was evaluated on (the
\* configured ones for simple_sim, the year's degraded ones for
\* multi_year_sim), the second never above the first.
C8_FleetTotals ==
    /\ simple_ret # <<>> =>
          /\ simple_ret[1].result.total_battery_capacity = CapacitySum(args.batteries)
          /\ simple_ret[1].result.total_accessible_capacity
                = AccessibleSum(args.batteries)
          /\ simple_ret[1].result.total_accessible_capacity
                <= simple_ret[1].result.total_battery_capacity
    /\ \A k \in YearsStored :
          /\ YearResult(k).total_battery_capacity
                = CapacitySum(YearValues(k).batteries)
          /\ YearResult(k).total_accessible_capacity
                = AccessibleSum(YearValues(k).batteries)
          /\ YearResult(k).total_accessible_capacity
                <= YearResult(k).total_battery_capacity

\* A degraded year of a fleet of two batteries with different reserves.
C8_Witness ==
    /\ Len(multi_ret) >= 2
    /\ Len(args.batteries) >= 2
    /\ args.batteries[1].reserve_pct # args.batteries[2].reserve_pct
    /\ YearResult(1).total_battery_capacity < YearResult(0).total_battery_capacity
    /\ YearResult(1).total_accessible_capacity < YearResult(1).total_battery_capacity

\* C9 as stated: with a negative mean, p_success never rises from one
\* year to the next.
C9_Original ==
    args.profile.avg_net_consumption_KWh < 0 =>
        \A k \in YearsStored :
            k >= 1 => LeqP(YearResult(k).p_success, YearResult(k - 1).p_success)

\* C9 amended: with a negative mean, every year's p_success counts that
\* year's own n_simulations trials, and p_success does not rise from year
\* k to year k + 1 when the two years read the same draws (the generator at
\* the same position, or stdv = 0).
C9_NonIncreasingOnSameDraws ==
    args.profile.avg_net_consumption_KWh < 0 =>
        \A k \in YearsStored :
            /\ YearResult(k).p_success[2] = args.n_simulations
            /\ YearResult(k).p_success[1] \in 0..args.n_simulations
            /\ ( /\ k >= 1
                 /\ \/ multi_ret[k + 1].seed = multi_ret[k].seed
                    \/ args.profile.stdv_net_consumption_KWh = 0 )
               => LeqP(YearResult(k).p_success, YearResult(k - 1).p_success)

\* Two years on the same draws, with spread, the later one strictly worse.
C9_Witness ==
    /\ args.profile.avg_net_consumption_KWh < 0
    /\ args.profile.stdv_net_consumption_KWh > 0
    /\ \E k \in YearsStored :
          /\ k >= 1
          /\ multi_ret[k + 1].seed = multi_ret[k].seed
          /\ ~LeqP(YearResult(k - 1).p_success, YearResult(k).p_success)

\* C10: past the end of its profile (length L) a battery's capacity, and
\* the profile's mean, stay at their value of year L, each at its own L.
C10_HeldPastProfile ==
    \A k \in YearsDerived :
        /\ \A i \in 1..Len(YearValues(k).batteries) :
              LET L == Len(args.batteries[i].degredation_profile)
              IN k > L =>
                    YearValues(k).batteries[i].capacity_KWh
                        = YearValues(L).batteries[i].capacity_KWh
        /\ LET L == Len(args.profile.degredation_profile)
           IN k > L =>
                 YearValues(k).profile.avg_net_consumption_KWh
                     = YearValues(L).profile.avg_net_consumption_KWh

\* A year in which one battery is held at its year-L value while the mean
\* (a longer profile) still changes, and a later year in which both hold.
C10_Witness ==
    \E i \in 1..Len(args.batteries) :
        LET L == Len(args.batteries[i].degredation_profile)
            M == Len(args.profile.degredation_profile)
        IN /\ L >= 1
           /\ M > L
           /\ Len(yearly) >= M + 2
           /\ YearValues(L).batteries[i].capacity_KWh
                 < YearValues(0).batteries[i].capacity_KWh
           /\ YearValues(M).batteries[i].capacity_KWh
                 = YearValues(L).batteries[i].capacity_KWh
           /\ YearValues(M).profile.avg_net_consumption_KWh
                 # YearValues(L).profile.avg_net_consumption_KWh
           /\ YearValues(M + 1).profile.avg_net_consumption_KWh
                 = YearValues(M).profile.avg_net_consumption_KWh

====
